---------------------------- MODULE Spec2Model ----------------------------
(***************************************************************************)
(* Model of tools/sanitize.py: sanitize() opens the template archive,      *)
(* copies every entry to a new archive and rewrites the text of the entry  *)
(* named content.xml with eleven literal replace-all rules.                *)
(*                                                                         *)
(* Text (a Python str) is a sequence of Unicode code points; the content   *)
(* of an archive entry (Python bytes) is a sequence of integers 0..255.    *)
(* The literals of the rules are the literals of the source, code point    *)
(* by code point.                                                          *)
(***************************************************************************)
EXTENDS Integers, Sequences, FiniteSets

\* sanitize.py line 17, as Unicode code points:
\*   <text:span text:style-name="T2">FAKTURA - DA\u0147OV\u00dd DOKLAD \u010d
\*   . 300</text:span><text:span text:style-name="T3">6</text:span><text:span
\*    text:style-name="T4">2025</text:span>
title_search ==
  <<
    60, 116, 101, 120, 116, 58, 115, 112, 97, 110, 32, 116, 101, 120, 116, 58,
    115, 116, 121, 108, 101, 45, 110, 97, 109, 101, 61, 34, 84, 50, 34, 62,
    70, 65, 75, 84, 85, 82, 65, 32, 45, 32, 68, 65, 327, 79, 86, 221, 32, 68,
    79, 75, 76, 65, 68, 32, 269, 46, 32, 51, 48, 48, 60, 47, 116, 101, 120,
    116, 58, 115, 112, 97, 110, 62, 60, 116, 101, 120, 116, 58, 115, 112, 97,
    110, 32, 116, 101, 120, 116, 58, 115, 116, 121, 108, 101, 45, 110, 97,
    109, 101, 61, 34, 84, 51, 34, 62, 54, 60, 47, 116, 101, 120, 116, 58, 115,
    112, 97, 110, 62, 60, 116, 101, 120, 116, 58, 115, 112, 97, 110, 32, 116,
    101, 120, 116, 58, 115, 116, 121, 108, 101, 45, 110, 97, 109, 101, 61, 34,
    84, 52, 34, 62, 50, 48, 50, 53, 60, 47, 116, 101, 120, 116, 58, 115, 112,
    97, 110, 62 >>

\* sanitize.py line 18, as Unicode code points:
\*   <text:span text:style-name="T2">FAKTURA - DA\u0147OV\u00dd DOKLAD \u010d
\*   . {{INVOICE_NO}}</text:span>
title_repl ==
  <<
    60, 116, 101, 120, 116, 58, 115, 112, 97, 110, 32, 116, 101, 120, 116, 58,
    115, 116, 121, 108, 101, 45, 110, 97, 109, 101, 61, 34, 84, 50, 34, 62,
    70, 65, 75, 84, 85, 82, 65, 32, 45, 32, 68, 65, 327, 79, 86, 221, 32, 68,
    79, 75, 76, 65, 68, 32, 269, 46, 32, 123, 123, 73, 78, 86, 79, 73, 67, 69,
    95, 78, 79, 125, 125, 60, 47, 116, 101, 120, 116, 58, 115, 112, 97, 110,
    62 >>

\* sanitize.py line 24, as Unicode code points:
\*   <text:span text:style-name="T16">3</text:span><text:span text:style-name
\*   ="T17">0</text:span><text:span text:style-name="T18">.</text:span>
issue_day_search ==
  <<
    60, 116, 101, 120, 116, 58, 115, 112, 97, 110, 32, 116, 101, 120, 116, 58,
    115, 116, 121, 108, 101, 45, 110, 97, 109, 101, 61, 34, 84, 49, 54, 34,
    62, 51, 60, 47, 116, 101, 120, 116, 58, 115, 112, 97, 110, 62, 60, 116,
    101, 120, 116, 58, 115, 112, 97, 110, 32, 116, 101, 120, 116, 58, 115,
    116, 121, 108, 101, 45, 110, 97, 109, 101, 61, 34, 84, 49, 55, 34, 62, 48,
    60, 47, 116, 101, 120, 116, 58, 115, 112, 97, 110, 62, 60, 116, 101, 120,
    116, 58, 115, 112, 97, 110, 32, 116, 101, 120, 116, 58, 115, 116, 121,
    108, 101, 45, 110, 97, 109, 101, 61, 34, 84, 49, 56, 34, 62, 46, 60, 47,
    116, 101, 120, 116, 58, 115, 112, 97, 110, 62 >>

\* sanitize.py line 25, as Unicode code points:
\*   <text:span text:style-name="T16">{{ISSUE_DAY}}.</text:span>
issue_day_repl ==
  <<
    60, 116, 101, 120, 116, 58, 115, 112, 97, 110, 32, 116, 101, 120, 116, 58,
    115, 116, 121, 108, 101, 45, 110, 97, 109, 101, 61, 34, 84, 49, 54, 34,
    62, 123, 123, 73, 83, 83, 85, 69, 95, 68, 65, 89, 125, 125, 46, 60, 47,
    116, 101, 120, 116, 58, 115, 112, 97, 110, 62 >>

\* sanitize.py line 29, as Unicode code points:
\*   <text:span text:style-name="T21">6</text:span><text:span text:style-name
\*   ="T22">. 2025</text:span>
issue_month_year_search ==
  <<
    60, 116, 101, 120, 116, 58, 115, 112, 97, 110, 32, 116, 101, 120, 116, 58,
    115, 116, 121, 108, 101, 45, 110, 97, 109, 101, 61, 34, 84, 50, 49, 34,
    62, 54, 60, 47, 116, 101, 120, 116, 58, 115, 112, 97, 110, 62, 60, 116,
    101, 120, 116, 58, 115, 112, 97, 110, 32, 116, 101, 120, 116, 58, 115,
    116, 121, 108, 101, 45, 110, 97, 109, 101, 61, 34, 84, 50, 50, 34, 62, 46,
    32, 50, 48, 50, 53, 60, 47, 116, 101, 120, 116, 58, 115, 112, 97, 110, 62 >>

\* sanitize.py line 30, as Unicode code points:
\*   <text:span text:style-name="T21">{{ISSUE_MONTH_YEAR}}</text:span>
issue_month_year_repl ==
  <<
    60, 116, 101, 120, 116, 58, 115, 112, 97, 110, 32, 116, 101, 120, 116, 58,
    115, 116, 121, 108, 101, 45, 110, 97, 109, 101, 61, 34, 84, 50, 49, 34,
    62, 123, 123, 73, 83, 83, 85, 69, 95, 77, 79, 78, 84, 72, 95, 89, 69, 65,
    82, 125, 125, 60, 47, 116, 101, 120, 116, 58, 115, 112, 97, 110, 62 >>

\* sanitize.py line 36, as Unicode code points:
\*   <text:span text:style-name="T29"><text:s text:c="2"/></text:span><text:s
\*   pan text:style-name="T30">30</text:span><text:span text:style-name="T31"
\*   >.</text:span>
duzp_day_search ==
  <<
    60, 116, 101, 120, 116, 58, 115, 112, 97, 110, 32, 116, 101, 120, 116, 58,
    115, 116, 121, 108, 101, 45, 110, 97, 109, 101, 61, 34, 84, 50, 57, 34,
    62, 60, 116, 101, 120, 116, 58, 115, 32, 116, 101, 120, 116, 58, 99, 61,
    34, 50, 34, 47, 62, 60, 47, 116, 101, 120, 116, 58, 115, 112, 97, 110, 62,
    60, 116, 101, 120, 116, 58, 115, 112, 97, 110, 32, 116, 101, 120, 116, 58,
    115, 116, 121, 108, 101, 45, 110, 97, 109, 101, 61, 34, 84, 51, 48, 34,
    62, 51, 48, 60, 47, 116, 101, 120, 116, 58, 115, 112, 97, 110, 62, 60,
    116, 101, 120, 116, 58, 115, 112, 97, 110, 32, 116, 101, 120, 116, 58,
    115, 116, 121, 108, 101, 45, 110, 97, 109, 101, 61, 34, 84, 51, 49, 34,
    62, 46, 60, 47, 116, 101, 120, 116, 58, 115, 112, 97, 110, 62 >>

\* sanitize.py line 37, as Unicode code points:
\*   <text:span text:style-name="T30">{{DUZP_DAY}}.</text:span>
duzp_day_repl ==
  <<
    60, 116, 101, 120, 116, 58, 115, 112, 97, 110, 32, 116, 101, 120, 116, 58,
    115, 116, 121, 108, 101, 45, 110, 97, 109, 101, 61, 34, 84, 51, 48, 34,
    62, 123, 123, 68, 85, 90, 80, 95, 68, 65, 89, 125, 125, 46, 60, 47, 116,
    101, 120, 116, 58, 115, 112, 97, 110, 62 >>

\* sanitize.py line 41, as Unicode code points:
\*   <text:span text:style-name="T34">6</text:span><text:span text:style-name
\*   ="T35">. 2025</text:span>
duzp_month_year_search ==
  <<
    60, 116, 101, 120, 116, 58, 115, 112, 97, 110, 32, 116, 101, 120, 116, 58,
    115, 116, 121, 108, 101, 45, 110, 97, 109, 101, 61, 34, 84, 51, 52, 34,
    62, 54, 60, 47, 116, 101, 120, 116, 58, 115, 112, 97, 110, 62, 60, 116,
    101, 120, 116, 58, 115, 112, 97, 110, 32, 116, 101, 120, 116, 58, 115,
    116, 121, 108, 101, 45, 110, 97, 109, 101, 61, 34, 84, 51, 53, 34, 62, 46,
    32, 50, 48, 50, 53, 60, 47, 116, 101, 120, 116, 58, 115, 112, 97, 110, 62 >>

\* sanitize.py line 42, as Unicode code points:
\*   <text:span text:style-name="T34">{{DUZP_MONTH_YEAR}}</text:span>
duzp_month_year_repl ==
  <<
    60, 116, 101, 120, 116, 58, 115, 112, 97, 110, 32, 116, 101, 120, 116, 58,
    115, 116, 121, 108, 101, 45, 110, 97, 109, 101, 61, 34, 84, 51, 52, 34,
    62, 123, 123, 68, 85, 90, 80, 95, 77, 79, 78, 84, 72, 95, 89, 69, 65, 82,
    125, 125, 60, 47, 116, 101, 120, 116, 58, 115, 112, 97, 110, 62 >>

\* sanitize.py line 48, as Unicode code points:
\*   <text:span text:style-name="T42">30</text:span><text:span text:style-nam
\*   e="T43">.</text:span>
due_day_search ==
  <<
    60, 116, 101, 120, 116, 58, 115, 112, 97, 110, 32, 116, 101, 120, 116, 58,
    115, 116, 121, 108, 101, 45, 110, 97, 109, 101, 61, 34, 84, 52, 50, 34,
    62, 51, 48, 60, 47, 116, 101, 120, 116, 58, 115, 112, 97, 110, 62, 60,
    116, 101, 120, 116, 58, 115, 112, 97, 110, 32, 116, 101, 120, 116, 58,
    115, 116, 121, 108, 101, 45, 110, 97, 109, 101, 61, 34, 84, 52, 51, 34,
    62, 46, 60, 47, 116, 101, 120, 116, 58, 115, 112, 97, 110, 62 >>

\* sanitize.py line 49, as Unicode code points:
\*   <text:span text:style-name="T42">{{DUE_DAY}}.</text:span>
due_day_repl ==
  <<
    60, 116, 101, 120, 116, 58, 115, 112, 97, 110, 32, 116, 101, 120, 116, 58,
    115, 116, 121, 108, 101, 45, 110, 97, 109, 101, 61, 34, 84, 52, 50, 34,
    62, 123, 123, 68, 85, 69, 95, 68, 65, 89, 125, 125, 46, 60, 47, 116, 101,
    120, 116, 58, 115, 112, 97, 110, 62 >>

\* sanitize.py line 53, as Unicode code points:
\*   <text:span text:style-name="T46">9</text:span><text:span text:style-name
\*   ="T47">. 2025</text:span>
due_month_year_search ==
  <<
    60, 116, 101, 120, 116, 58, 115, 112, 97, 110, 32, 116, 101, 120, 116, 58,
    115, 116, 121, 108, 101, 45, 110, 97, 109, 101, 61, 34, 84, 52, 54, 34,
    62, 57, 60, 47, 116, 101, 120, 116, 58, 115, 112, 97, 110, 62, 60, 116,
    101, 120, 116, 58, 115, 112, 97, 110, 32, 116, 101, 120, 116, 58, 115,
    116, 121, 108, 101, 45, 110, 97, 109, 101, 61, 34, 84, 52, 55, 34, 62, 46,
    32, 50, 48, 50, 53, 60, 47, 116, 101, 120, 116, 58, 115, 112, 97, 110, 62 >>

\* sanitize.py line 54, as Unicode code points:
\*   <text:span text:style-name="T46">{{DUE_MONTH_YEAR}}</text:span>
due_month_year_repl ==
  <<
    60, 116, 101, 120, 116, 58, 115, 112, 97, 110, 32, 116, 101, 120, 116, 58,
    115, 116, 121, 108, 101, 45, 110, 97, 109, 101, 61, 34, 84, 52, 54, 34,
    62, 123, 123, 68, 85, 69, 95, 77, 79, 78, 84, 72, 95, 89, 69, 65, 82, 125,
    125, 60, 47, 116, 101, 120, 116, 58, 115, 112, 97, 110, 62 >>

\* A VS literal cut down to the year, 2025.
vs_search_year == << 50, 48, 50, 53 >>

\* sanitize.py line 59, as Unicode code points:
\*   30062025
vs_search ==
  <<
    51, 48, 48, 54, 50, 48, 50, 53 >>

\* sanitize.py line 60, as Unicode code points:
\*   {{VS}}
vs_repl ==
  <<
    123, 123, 86, 83, 125, 125 >>

\* sanitize.py line 64, as Unicode code points:
\*   <text:h text:style-name="Heading3" text:outline-level="3"><text:line-bre
\*   ak/>Scio\u0160kola Praha Nusle - z\u00e1kladn\u00ed \u0161kola, s.r.o.</
\*   text:h><text:p text:style-name="P72">Boleslavova 250/1, Nusle, 140 00 Pr
\*   aha 4</text:p><text:p text:style-name="P73">\u010cesk\u00e1 republika</t
\*   ext:p><text:h text:style-name="Heading3" text:outline-level="3">I\u010c:
\*    07231881</text:h>
customer_search ==
  <<
    60, 116, 101, 120, 116, 58, 104, 32, 116, 101, 120, 116, 58, 115, 116,
    121, 108, 101, 45, 110, 97, 109, 101, 61, 34, 72, 101, 97, 100, 105, 110,
    103, 51, 34, 32, 116, 101, 120, 116, 58, 111, 117, 116, 108, 105, 110,
    101, 45, 108, 101, 118, 101, 108, 61, 34, 51, 34, 62, 60, 116, 101, 120,
    116, 58, 108, 105, 110, 101, 45, 98, 114, 101, 97, 107, 47, 62, 83, 99,
    105, 111, 352, 107, 111, 108, 97, 32, 80, 114, 97, 104, 97, 32, 78, 117,
    115, 108, 101, 32, 45, 32, 122, 225, 107, 108, 97, 100, 110, 237, 32, 353,
    107, 111, 108, 97, 44, 32, 115, 46, 114, 46, 111, 46, 60, 47, 116, 101,
    120, 116, 58, 104, 62, 60, 116, 101, 120, 116, 58, 112, 32, 116, 101, 120,
    116, 58, 115, 116, 121, 108, 101, 45, 110, 97, 109, 101, 61, 34, 80, 55,
    50, 34, 62, 66, 111, 108, 101, 115, 108, 97, 118, 111, 118, 97, 32, 50,
    53, 48, 47, 49, 44, 32, 78, 117, 115, 108, 101, 44, 32, 49, 52, 48, 32,
    48, 48, 32, 80, 114, 97, 104, 97, 32, 52, 60, 47, 116, 101, 120, 116, 58,
    112, 62, 60, 116, 101, 120, 116, 58, 112, 32, 116, 101, 120, 116, 58, 115,
    116, 121, 108, 101, 45, 110, 97, 109, 101, 61, 34, 80, 55, 51, 34, 62,
    268, 101, 115, 107, 225, 32, 114, 101, 112, 117, 98, 108, 105, 107, 97,
    60, 47, 116, 101, 120, 116, 58, 112, 62, 60, 116, 101, 120, 116, 58, 104,
    32, 116, 101, 120, 116, 58, 115, 116, 121, 108, 101, 45, 110, 97, 109,
    101, 61, 34, 72, 101, 97, 100, 105, 110, 103, 51, 34, 32, 116, 101, 120,
    116, 58, 111, 117, 116, 108, 105, 110, 101, 45, 108, 101, 118, 101, 108,
    61, 34, 51, 34, 62, 73, 268, 58, 32, 48, 55, 50, 51, 49, 56, 56, 49, 60,
    47, 116, 101, 120, 116, 58, 104, 62 >>

\* sanitize.py line 65, as Unicode code points:
\*   {{CUSTOMER_BLOCK}}
customer_repl ==
  <<
    123, 123, 67, 85, 83, 84, 79, 77, 69, 82, 95, 66, 76, 79, 67, 75, 125, 125 >>

\* sanitize.py line 69, as Unicode code points:
\*   <text:span text:style-name="T108">Konzulta\u010dn\u00ed a program\u00e1t
\*   orsk\u00e9 slu\u017eby na<text:s/></text:span><text:span text:style-name
\*   ="T109">EduMap</text:span><text:span text:style-name="T110">.</text:span
\*   >
description_search ==
  <<
    60, 116, 101, 120, 116, 58, 115, 112, 97, 110, 32, 116, 101, 120, 116, 58,
    115, 116, 121, 108, 101, 45, 110, 97, 109, 101, 61, 34, 84, 49, 48, 56,
    34, 62, 75, 111, 110, 122, 117, 108, 116, 97, 269, 110, 237, 32, 97, 32,
    112, 114, 111, 103, 114, 97, 109, 225, 116, 111, 114, 115, 107, 233, 32,
    115, 108, 117, 382, 98, 121, 32, 110, 97, 60, 116, 101, 120, 116, 58, 115,
    47, 62, 60, 47, 116, 101, 120, 116, 58, 115, 112, 97, 110, 62, 60, 116,
    101, 120, 116, 58, 115, 112, 97, 110, 32, 116, 101, 120, 116, 58, 115,
    116, 121, 108, 101, 45, 110, 97, 109, 101, 61, 34, 84, 49, 48, 57, 34, 62,
    69, 100, 117, 77, 97, 112, 60, 47, 116, 101, 120, 116, 58, 115, 112, 97,
    110, 62, 60, 116, 101, 120, 116, 58, 115, 112, 97, 110, 32, 116, 101, 120,
    116, 58, 115, 116, 121, 108, 101, 45, 110, 97, 109, 101, 61, 34, 84, 49,
    49, 48, 34, 62, 46, 60, 47, 116, 101, 120, 116, 58, 115, 112, 97, 110, 62 >>

\* sanitize.py line 70, as Unicode code points:
\*   <text:span text:style-name="T108">{{DESCRIPTION}}</text:span>
description_repl ==
  <<
    60, 116, 101, 120, 116, 58, 115, 112, 97, 110, 32, 116, 101, 120, 116, 58,
    115, 116, 121, 108, 101, 45, 110, 97, 109, 101, 61, 34, 84, 49, 48, 56,
    34, 62, 123, 123, 68, 69, 83, 67, 82, 73, 80, 84, 73, 79, 78, 125, 125,
    60, 47, 116, 101, 120, 116, 58, 115, 112, 97, 110, 62 >>

\* sanitize.py line 75, as Unicode code points:
\*   90<text:s/>000,00 K\u010d
amount_search ==
  <<
    57, 48, 60, 116, 101, 120, 116, 58, 115, 47, 62, 48, 48, 48, 44, 48, 48,
    32, 75, 269 >>

\* sanitize.py line 75, as Unicode code points:
\*   {{AMOUNT}}
amount_repl ==
  <<
    123, 123, 65, 77, 79, 85, 78, 84, 125, 125 >>

(***************************************************************************)
(* The rule list, in the order of the statements of sanitize().            *)
(***************************************************************************)
RULES ==
  << [search |-> title_search,            repl |-> title_repl],
     [search |-> issue_day_search,        repl |-> issue_day_repl],
     [search |-> issue_month_year_search, repl |-> issue_month_year_repl],
     [search |-> duzp_day_search,         repl |-> duzp_day_repl],
     [search |-> duzp_month_year_search,  repl |-> duzp_month_year_repl],
     [search |-> due_day_search,          repl |-> due_day_repl],
     [search |-> due_month_year_search,   repl |-> due_month_year_repl],
     [search |-> vs_search,               repl |-> vs_repl],
     [search |-> customer_search,         repl |-> customer_repl],
     [search |-> description_search,      repl |-> description_repl],
     [search |-> amount_search,           repl |-> amount_repl] >>

NumRules == Len(RULES)

\* The numbered comment under which each rule stands in the source
\* ("# 1. Invoice No Title" .. "# 8. Amounts").
GROUP_OF == << 1, 2, 2, 3, 3, 4, 4, 5, 6, 7, 8 >>

Groups == {GROUP_OF[k] : k \in 1..NumRules}

TARGET_NAME == "content.xml"

(***************************************************************************)
(* str.replace(old, new) for a non-empty old (every search literal of the  *)
(* source is non-empty): scan from the left, replace the leftmost match,   *)
(* continue after it.                                                      *)
(***************************************************************************)
Min(S) == CHOOSE m \in S : \A n \in S : m <= n

MatchAt(t, s, i) == \A k \in 1..Len(s) : t[i + k - 1] = s[k]

Matches(t, s) == {i \in 1..(Len(t) - Len(s) + 1) : MatchAt(t, s, i)}

RECURSIVE ReplaceFrom(_, _, _, _, _)
ReplaceFrom(t, s, r, M, pos) ==
  LET next == {m \in M : m >= pos}
  IN IF next = {}
       THEN SubSeq(t, pos, Len(t))
       ELSE LET m == Min(next)
            IN SubSeq(t, pos, m - 1) \o r \o ReplaceFrom(t, s, r, M, m + Len(s))

\* A replace that stops after the first match, as str.replace(old, new, 1).
str_replace_first(t, s, r) ==
  LET M == Matches(t, s)
  IN IF M = {} THEN t
     ELSE LET m == Min(M)
          IN SubSeq(t, 1, m - 1) \o r \o SubSeq(t, m + Len(s), Len(t))

str_replace(t, s, r) == ReplaceFrom(t, s, r, Matches(t, s), 1)

\* xml after the statements of rules 1..k, each applied to the result of
\* the one before.
RECURSIVE ApplyRulesUpTo(_, _)
ApplyRulesUpTo(t, k) ==
  IF k = 0 THEN t
  ELSE str_replace(ApplyRulesUpTo(t, k - 1), RULES[k].search, RULES[k].repl)

ApplyRules(t) == ApplyRulesUpTo(t, NumRules)

(***************************************************************************)
(* bytes.decode('utf-8') and str.encode('utf-8'), strict.                  *)
(***************************************************************************)
IsCont(b) == b \in 128..191

\* Length of the sequence a lead byte starts; 0 for a byte that starts none.
SeqLen(b) ==
  IF b < 128 THEN 1
  ELSE IF b \in 194..223 THEN 2
  ELSE IF b \in 224..239 THEN 3
  ELSE IF b \in 240..244 THEN 4
  ELSE 0

\* The range of the second byte: no overlong form, no surrogate, nothing
\* above U+10FFFF.
SecondOk(b0, b1) ==
  IF b0 = 224 THEN b1 \in 160..191
  ELSE IF b0 = 237 THEN b1 \in 128..159
  ELSE IF b0 = 240 THEN b1 \in 144..191
  ELSE IF b0 = 244 THEN b1 \in 128..143
  ELSE IsCont(b1)

ValidAt(b, i) ==
  LET n == SeqLen(b[i])
  IN /\ n > 0
     /\ i + n - 1 <= Len(b)
     /\ \A k \in 1..(n - 1) : IsCont(b[i + k])
     /\ n > 1 => SecondOk(b[i], b[i + 1])

\* A continuation byte belongs to the sequence of the nearest lead before it.
Covered(b, i) ==
  \E j \in 1..(i - 1) :
     /\ ~IsCont(b[j])
     /\ \A m \in (j + 1)..i : IsCont(b[m])
     /\ j + SeqLen(b[j]) - 1 >= i

Decodable(b) ==
  \A i \in 1..Len(b) : IF IsCont(b[i]) THEN Covered(b, i) ELSE ValidAt(b, i)

CodePointAt(b, i) ==
  LET n == SeqLen(b[i])
  IN IF n = 1 THEN b[i]
     ELSE IF n = 2 THEN (b[i] - 192) * 64 + (b[i + 1] - 128)
     ELSE IF n = 3
       THEN (b[i] - 224) * 4096 + (b[i + 1] - 128) * 64 + (b[i + 2] - 128)
     ELSE (b[i] - 240) * 262144 + (b[i + 1] - 128) * 4096
            + (b[i + 2] - 128) * 64 + (b[i + 3] - 128)

RECURSIVE DecodeRange(_, _, _)
DecodeRange(b, lo, hi) ==
  IF lo > hi THEN << >>
  ELSE IF lo = hi
    THEN IF IsCont(b[lo]) THEN << >> ELSE << CodePointAt(b, lo) >>
  ELSE LET mid == (lo + hi) \div 2
       IN DecodeRange(b, lo, mid) \o DecodeRange(b, mid + 1, hi)

\* Defined where Decodable(b); elsewhere decode raises UnicodeDecodeError.
utf8_decode(b) == DecodeRange(b, 1, Len(b))

EncodeChar(c) ==
  IF c < 128 THEN << c >>
  ELSE IF c < 2048 THEN << 192 + (c \div 64), 128 + (c % 64) >>
  ELSE IF c < 65536
    THEN << 224 + (c \div 4096), 128 + ((c \div 64) % 64), 128 + (c % 64) >>
  ELSE << 240 + (c \div 262144), 128 + ((c \div 4096) % 64),
          128 + ((c \div 64) % 64), 128 + (c % 64) >>

RECURSIVE EncodeRange(_, _, _)
EncodeRange(t, lo, hi) ==
  IF lo > hi THEN << >>
  ELSE IF lo = hi THEN EncodeChar(t[lo])
  ELSE LET mid == (lo + hi) \div 2
       IN EncodeRange(t, lo, mid) \o EncodeRange(t, mid + 1, hi)

utf8_encode(t) == EncodeRange(t, 1, Len(t))

(***************************************************************************)
(* State of one run of sanitize() and of the two archives it works on.     *)
(***************************************************************************)
VARIABLES
  src,      \* entries of the archive at TEMPLATE_PATH, in directory order
  dst,      \* entries of the archive at OUTPUT_PATH, in the order written
  zin,      \* handle on the source: "unopened", "open" or "closed"
  zout,     \* handle on the destination
  pc,       \* the statement of sanitize() that runs next
  i,        \* position of item in zin.infolist()
  content,  \* the bytes read for item
  xml,      \* the text the rules rewrite
  applied,  \* the rules already applied to xml
  exc,      \* the exception that propagates, "none" if none
  stdout,   \* the lines printed
  runs      \* completed runs whose output was made the next template

vars == << src, dst, zin, zout, pc, i, content, xml, applied, exc, stdout, runs >>

\* ---- bounds of the model ----
MaxPieces == 2        \* pieces a text of the rule specifications is made of
MaxTargetPieces == 1  \* pieces of a content.xml in an archive of Spec
MaxEntries == 2       \* entries of a source archive of Spec

\* ---- the inputs ----
FirstHalf(s) == SubSeq(s, 1, Len(s) \div 2)
SecondHalf(s) == SubSeq(s, (Len(s) \div 2) + 1, Len(s))

\* What the text of a document is made of: every search literal, the two
\* halves 3006 and 2025 of the VS literal, and the letter x.
Pieces ==
  {RULES[k].search : k \in 1..NumRules}
    \cup {FirstHalf(vs_search), SecondHalf(vs_search), <<120>>}

\* What a text is made of where the rule groups are applied in any order:
\* the search literals made of spans and digits, and the letter x.
OrderPieces ==
  ({RULES[k].search : k \in 1..NumRules} \ {customer_search, description_search})
    \cup { <<120>> }

\* What the text of a content.xml is made of in the archives of Spec.
ArchivePieces == {amount_search, <<120>>}

RECURSIVE TextsOf(_, _)
TextsOf(P, n) ==
  IF n = 0 THEN { << >> }
  ELSE LET T == TextsOf(P, n - 1) IN T \cup {t \o p : t \in T, p \in P}

\* Bytes that are no UTF-8: a lone 0xFF, and a lead byte with nothing after.
BadBytes == { <<255>>, <<60, 196>> }

PassNames == {"mimetype", "styles.xml"}
PassContents == { << >>, <<80, 75>> }

Entry(n, c) == [filename |-> n, content |-> c]

TargetEntries ==
  {Entry(TARGET_NAME, utf8_encode(t)) : t \in TextsOf(ArchivePieces, MaxTargetPieces)}
    \cup {Entry(TARGET_NAME, b) : b \in BadBytes}

PassEntries == {Entry(n, c) : n \in PassNames, c \in PassContents}

RECURSIVE ArchivesOf(_)
ArchivesOf(n) ==
  IF n = 0 THEN { << >> }
  ELSE LET A == ArchivesOf(n - 1)
       IN A \cup {Append(a, e) : a \in A, e \in TargetEntries \cup PassEntries}

UniqueNames(a) ==
  \A j, k \in 1..Len(a) : a[j].filename = a[k].filename => j = k

\* ZipFile.read(name): the directory maps a name to the last entry that
\* carries it.
zin_read(a, name) ==
  LET last == CHOOSE j \in 1..Len(a) :
                /\ a[j].filename = name
                /\ \A k \in (j + 1)..Len(a) : a[k].filename # name
  IN a[last].content

\* ---- the run ----
Fresh ==
  /\ dst = << >>
  /\ zin = "unopened" /\ zout = "unopened"
  /\ pc = "open_zin"
  /\ i = 0
  /\ content = << >>
  /\ xml = << >>
  /\ applied = {}
  /\ exc = "none"
  /\ stdout = << >>
  /\ runs = 0

Init == src \in ArchivesOf(MaxEntries) /\ Fresh

\* line 8: with zipfile.ZipFile(TEMPLATE_PATH, 'r') as zin
OpenZin ==
  /\ pc = "open_zin"
  /\ zin' = "open"
  /\ pc' = "open_zout"
  /\ UNCHANGED << src, dst, zout, i, content, xml, applied, exc, stdout, runs >>

OpenZinFails ==
  /\ pc = "open_zin"
  /\ exc' = "BadZipFile"
  /\ pc' = "raised"
  /\ UNCHANGED << src, dst, zin, zout, i, content, xml, applied, stdout, runs >>

\* line 9: with zipfile.ZipFile(OUTPUT_PATH, 'w') as zout: the file is
\* created or truncated.
OpenZout ==
  /\ pc = "open_zout"
  /\ zout' = "open"
  /\ dst' = << >>
  /\ i' = 0
  /\ pc' = "for"
  /\ UNCHANGED << src, zin, content, xml, applied, exc, stdout, runs >>

OpenZoutFails ==
  /\ pc = "open_zout"
  /\ exc' = "OSError"
  /\ pc' = "exit_zin"
  /\ UNCHANGED << src, dst, zin, zout, i, content, xml, applied, stdout, runs >>

\* line 10: for item in zin.infolist()
ForItem ==
  /\ pc = "for"
  /\ IF i < Len(src)
       THEN i' = i + 1 /\ pc' = "read"
       ELSE i' = i /\ pc' = "exit_zout"
  /\ UNCHANGED << src, dst, zin, zout, content, xml, applied, exc, stdout, runs >>

\* lines 11-12: content = zin.read(item.filename), then the test of the name
ReadItem ==
  /\ pc = "read"
  /\ content' = zin_read(src, src[i].filename)
  /\ pc' = IF src[i].filename = TARGET_NAME THEN "decode" ELSE "copy"
  /\ UNCHANGED << src, dst, zin, zout, i, xml, applied, exc, stdout, runs >>

ReadItemFails ==
  /\ pc = "read"
  /\ exc' = "BadZipFile"
  /\ pc' = "exit_zout"
  /\ UNCHANGED << src, dst, zin, zout, i, content, xml, applied, stdout, runs >>

\* A decode that drops what it cannot decode, as
\* content.decode('utf-8', errors='ignore') does, and goes on.
DecodeIgnoringErrors ==
  /\ pc = "decode"
  /\ xml' = SelectSeq(content, LAMBDA b : b < 128)
  /\ applied' = {}
  /\ pc' = "rules"
  /\ UNCHANGED << src, dst, zin, zout, i, content, exc, stdout, runs >>

\* line 13: xml = content.decode('utf-8')
Decode ==
  /\ pc = "decode"
  /\ IF Decodable(content)
       THEN /\ xml' = utf8_decode(content)
            /\ applied' = {}
            /\ pc' = "rules"
            /\ exc' = exc
       ELSE /\ exc' = "UnicodeDecodeError"
            /\ pc' = "exit_zout"
            /\ UNCHANGED << xml, applied >>
  /\ UNCHANGED << src, dst, zin, zout, i, content, stdout, runs >>

\* The k-th rule applied to the decoded content instead of to the result of
\* the rule before it.
RuleStepOnOriginal(k) ==
  /\ pc = "rules"
  /\ applied = 1..(k - 1)
  /\ xml' = str_replace(utf8_decode(content), RULES[k].search, RULES[k].repl)
  /\ applied' = 1..k
  /\ UNCHANGED << src, dst, zin, zout, pc, i, content, exc, stdout, runs >>

\* The k-th rule raising when its search literal is absent, as
\* xml.index(search) would.
RuleStepStrict(k) ==
  /\ pc = "rules"
  /\ applied = 1..(k - 1)
  /\ IF Matches(xml, RULES[k].search) = {}
       THEN /\ exc' = "ValueError"
            /\ pc' = "exit_zout"
            /\ UNCHANGED << xml, applied >>
       ELSE /\ xml' = str_replace(xml, RULES[k].search, RULES[k].repl)
            /\ applied' = 1..k
            /\ UNCHANGED << pc, exc >>
  /\ UNCHANGED << src, dst, zin, zout, i, content, stdout, runs >>

\* lines 16-75: the k-th xml = xml.replace(search, replacement)
RuleStep(k) ==
  /\ pc = "rules"
  /\ applied = 1..(k - 1)
  /\ xml' = str_replace(xml, RULES[k].search, RULES[k].repl)
  /\ applied' = 1..k
  /\ UNCHANGED << src, dst, zin, zout, pc, i, content, exc, stdout, runs >>

\* The rewritten entry put in front of the entries already written.
WriteTargetFirst ==
  /\ pc = "rules"
  /\ applied = 1..NumRules
  /\ dst' = << Entry(src[i].filename, utf8_encode(xml)) >> \o dst
  /\ pc' = "for"
  /\ UNCHANGED << src, zin, zout, i, content, xml, applied, exc, stdout, runs >>

\* line 77: zout.writestr(item.filename, xml.encode('utf-8'))
WriteTarget ==
  /\ pc = "rules"
  /\ applied = 1..NumRules
  /\ dst' = Append(dst, Entry(src[i].filename, utf8_encode(xml)))
  /\ pc' = "for"
  /\ UNCHANGED << src, zin, zout, i, content, xml, applied, exc, stdout, runs >>

\* A copy that skips an entry without content (if content: ...).
WritePassthroughNonEmpty ==
  /\ pc = "copy"
  /\ dst' = IF content = << >> THEN dst
            ELSE Append(dst, Entry(src[i].filename, content))
  /\ pc' = "for"
  /\ UNCHANGED << src, zin, zout, i, content, xml, applied, exc, stdout, runs >>

\* line 79: zout.writestr(item, content)
WritePassthrough ==
  /\ pc = "copy"
  /\ dst' = Append(dst, Entry(src[i].filename, content))
  /\ pc' = "for"
  /\ UNCHANGED << src, zin, zout, i, content, xml, applied, exc, stdout, runs >>

\* line 9, leaving the with block: zout.close(), also when an exception
\* propagates
ExitZout ==
  /\ pc = "exit_zout"
  /\ zout' = "closed"
  /\ pc' = "exit_zin"
  /\ UNCHANGED << src, dst, zin, i, content, xml, applied, exc, stdout, runs >>

\* zin closed by a zin.close() at the end of the block instead of by the
\* with statement: an exception passes it by.
ExitZinOnSuccessOnly ==
  /\ pc = "exit_zin"
  /\ zin' = IF exc = "none" THEN "closed" ELSE zin
  /\ pc' = IF exc = "none" THEN "print" ELSE "raised"
  /\ UNCHANGED << src, dst, zout, i, content, xml, applied, exc, stdout, runs >>

\* line 8, leaving the with block: zin.close()
ExitZin ==
  /\ pc = "exit_zin"
  /\ zin' = "closed"
  /\ pc' = IF exc = "none" THEN "print" ELSE "raised"
  /\ UNCHANGED << src, dst, zout, i, content, xml, applied, exc, stdout, runs >>

\* line 81: print("Template sanitized.")
PrintDone ==
  /\ pc = "print"
  /\ stdout' = Append(stdout, "Template sanitized.")
  /\ pc' = "done"
  /\ UNCHANGED << src, dst, zin, zout, i, content, xml, applied, exc, runs >>

NoFault ==
  \/ OpenZin \/ OpenZout \/ ForItem \/ ReadItem \/ Decode
  \/ \E k \in 1..NumRules : RuleStep(k)
  \/ WriteTarget \/ WritePassthrough \/ ExitZout \/ ExitZin \/ PrintDone

\* The faults of the environment: the source cannot be opened, the
\* destination cannot be created, an entry cannot be read.  (A content.xml
\* that is no UTF-8 is a fault of the input and is part of Decode.  A
\* write that fails half way through an entry is not modelled.)
Fault == OpenZinFails \/ OpenZoutFails \/ ReadItemFails

Next == NoFault \/ Fault

Spec == Init /\ [][Next]_vars

(***************************************************************************)
(* Runs without fault on a document of two entries whose content.xml is    *)
(* any text of up to MaxPieces pieces; the output of a completed run can   *)
(* be installed as the template and sanitize() run again, once.            *)
(***************************************************************************)
MIMETYPE == <<97, 112, 112>>

InitDocument ==
  /\ \E t \in TextsOf(Pieces, MaxPieces) :
        src = << Entry("mimetype", MIMETYPE), Entry(TARGET_NAME, utf8_encode(t)) >>
  /\ Fresh

\* The file at OUTPUT_PATH replaces the one at TEMPLATE_PATH and a new run
\* starts.
Rerun ==
  /\ pc = "done"
  /\ runs = 0
  /\ src' = dst
  /\ runs' = runs + 1
  /\ zin' = "unopened" /\ zout' = "unopened"
  /\ pc' = "open_zin"
  /\ i' = 0
  /\ content' = << >>
  /\ xml' = << >>
  /\ applied' = {}
  /\ stdout' = << >>
  /\ UNCHANGED << dst, exc >>

NextRerun == NoFault \/ Rerun

SpecRerun == InitDocument /\ [][NextRerun]_vars

(***************************************************************************)
(* The rule groups applied to a decoded content.xml in any order: the      *)
(* state is the one sanitize() is in after line 13.                        *)
(***************************************************************************)
RulesOf(g) == {k \in 1..NumRules : GROUP_OF[k] = g}

RECURSIVE ApplyIn(_, _)
ApplyIn(t, K) ==
  IF K = {} THEN t
  ELSE LET k == Min(K)
       IN ApplyIn(str_replace(t, RULES[k].search, RULES[k].repl), K \ {k})

InitDecoded ==
  /\ \E t \in TextsOf(OrderPieces, MaxPieces) :
        /\ src = << Entry(TARGET_NAME, utf8_encode(t)) >>
        /\ content = utf8_encode(t)
        /\ xml = t
  /\ dst = << >>
  /\ zin = "open" /\ zout = "open"
  /\ pc = "rules"
  /\ i = 1
  /\ applied = {}
  /\ exc = "none"
  /\ stdout = << >>
  /\ runs = 0

ApplyGroup(g) ==
  /\ pc = "rules"
  /\ RulesOf(g) \cap applied = {}
  /\ xml' = ApplyIn(xml, RulesOf(g))
  /\ applied' = applied \cup RulesOf(g)
  /\ UNCHANGED << src, dst, zin, zout, pc, i, content, exc, stdout, runs >>

NextAnyOrder == \E g \in Groups : ApplyGroup(g)

SpecAnyOrder == InitDecoded /\ [][NextAnyOrder]_vars


(***************************************************************************)
(* Properties.                                                             *)
(***************************************************************************)
IsTarget(e) == e.filename = TARGET_NAME

\* The text sanitize() decodes for content.xml, and what a search of it finds.
SourceText == utf8_decode(zin_read(src, TARGET_NAME))

Count(t, s) == Cardinality(Matches(t, s))

\* dst holds what this run has written (before line 9 it holds an older file)
Writing == zout # "unopened"

\* C1: after a successful run on an archive with unique entry names, the
\* destination has the names of the source, each exactly once: nothing is
\* added, dropped or duplicated.
Completeness ==
  (pc = "done" /\ UniqueNames(src)) =>
     /\ Len(dst) = Len(src)
     /\ {dst[j].filename : j \in 1..Len(dst)} = {src[j].filename : j \in 1..Len(src)}
     /\ \A j \in 1..Len(src) :
          Cardinality({k \in 1..Len(dst) : dst[k].filename = src[j].filename}) = 1

CompletenessWitness ==
  /\ pc = "done"
  /\ UniqueNames(src)
  /\ Len(src) = 2 /\ Len(dst) = 2
  /\ \E j \in 1..2 : IsTarget(src[j])

\* C2: after a successful run, every source entry that is not content.xml
\* has its bytes in the destination entry of its name.
PassthroughFidelity ==
  pc = "done" =>
     \A j \in 1..Len(src) :
        ~IsTarget(src[j]) =>
           /\ \E k \in 1..Len(dst) : dst[k].filename = src[j].filename
           /\ \A k \in 1..Len(dst) :
                dst[k].filename = src[j].filename => dst[k].content = src[j].content

\* C3: the text written for content.xml is the fold of the rule list, in
\* its order, over the decoded source text, each rule on the result of the
\* rule before it; it is a function of the source text.
TargetIsFold ==
  Writing =>
     \A j \in 1..Len(dst) :
        IsTarget(dst[j]) => dst[j].content = utf8_encode(ApplyRules(SourceText))

TargetIsFoldWitness ==
  /\ pc = "done" /\ runs = 0
  /\ SourceText = title_search \o amount_search
  /\ utf8_decode(dst[2].content) = title_repl \o amount_repl

\* C4: every occurrence of every search literal in the text of content.xml
\* is replaced by the replacement of its rule, and the text written has no
\* occurrence of any search literal left.
AllOccurrencesReplaced ==
  pc = "done" =>
     \A j \in 1..Len(dst) :
        IsTarget(dst[j]) =>
           LET out == utf8_decode(dst[j].content)
           IN \A k \in 1..NumRules :
                 /\ Matches(out, RULES[k].search) = {}
                 /\ Count(out, RULES[k].repl) >= Count(SourceText, RULES[k].search)

AllOccurrencesWitness ==
  /\ pc = "done" /\ runs = 0
  /\ SourceText = amount_search \o amount_search
  /\ utf8_decode(dst[2].content) = amount_repl \o amount_repl

\* In archive d, written from archive a: a content.xml of a without any
\* search literal is in d with the bytes it has in a.
NoLiteralCopied(a, d) ==
  \A j \in 1..Len(d) :
     IsTarget(d[j]) =>
        ((\A k \in 1..NumRules :
             Matches(utf8_decode(zin_read(a, TARGET_NAME)), RULES[k].search) = {})
            => d[j].content = zin_read(a, TARGET_NAME))

\* The k-th rule is next and its search literal is not in xml.
NoMatchStep(k) ==
  /\ pc = "rules"
  /\ applied = 1..(k - 1)
  /\ Matches(xml, RULES[k].search) = {}

\* C5: a rule whose search literal is absent when it is applied leaves the
\* text as it is and raises nothing, the rules after it are applied and the
\* run writes content.xml; a content.xml with none of the literals is
\* written with the source text.
NoMatchSafe ==
  [][ /\ \A k \in 1..NumRules :
            NoMatchStep(k) =>
               /\ xml' = xml
               /\ exc' = "none"
               /\ pc' = "rules"
               /\ applied' = 1..k
      /\ exc' = "none" /\ pc' # "raised"
      /\ pc' = "done" => \E j \in 1..Len(dst') : IsTarget(dst'[j])
      /\ zout' # "unopened" => NoLiteralCopied(src', dst') ]_vars

NoMatchWitness ==
  /\ pc = "done" /\ runs = 0
  /\ SourceText = <<120, 120>>
  /\ dst[2].content = src[2].content

\* In archive d, written from archive a: every content.xml is the encoded
\* result of all rules on the decodable content.xml of a.
TargetWrittenWhole(a, d) ==
  \A j \in 1..Len(d) :
     IsTarget(d[j]) =>
        /\ Decodable(zin_read(a, TARGET_NAME))
        /\ d[j].content = utf8_encode(ApplyRules(utf8_decode(zin_read(a, TARGET_NAME))))

\* C6: a failure aborts the run where it happens: once an exception
\* propagates, nothing more is read or written, the run does not start
\* again and nothing is printed; a content.xml is only ever written
\* decoded and with every rule applied.
FailureAborts ==
  [][ /\ exc # "none" =>
            /\ exc' = exc
            /\ dst' = dst /\ i' = i /\ content' = content /\ xml' = xml
            /\ pc' \in {"exit_zin", "raised"}
      /\ exc' # "none" => (dst' = dst /\ stdout' = << >> /\ pc' # "done")
      /\ TargetWrittenWhole(src', dst') ]_vars

FailureAbortsWitness ==
  /\ pc = "raised"
  /\ exc = "UnicodeDecodeError"
  /\ Len(src) = 2 /\ i = 1
  /\ dst = << >>
  /\ stdout = << >>

\* C7: when sanitize() has returned or raised, no archive handle is open,
\* and the completion notice is printed with both archives closed.
HandlesReleased ==
  /\ pc \in {"done", "raised"} => (zin # "open" /\ zout # "open")
  /\ (pc = "print" \/ stdout # << >>) => (zin = "closed" /\ zout = "closed")

HandlesReleasedWitness ==
  /\ pc = "raised"
  /\ exc = "UnicodeDecodeError"
  /\ i = 2 /\ Len(dst) = 1
  /\ zin = "closed" /\ zout = "closed"

\* C8: a run on the output of a run leaves content.xml, and the whole
\* archive, as it was: rules(rules(t)) = rules(t).
RerunNoOp == (runs >= 1 /\ pc = "done") => dst = src

RerunNoOpWitness ==
  /\ runs = 1 /\ pc = "done"
  /\ utf8_decode(dst[2].content) = vs_repl \o SecondHalf(vs_search)

\* C9: the rule groups applied in any order give the text the order of
\* sanitize() gives.
AnyOrderSameText ==
  (pc = "rules" /\ applied = 1..NumRules) => xml = ApplyRules(utf8_decode(content))

AnyOrderWitness ==
  /\ pc = "rules" /\ applied = 1..NumRules
  /\ utf8_decode(content) = issue_month_year_search \o vs_search
  /\ xml = issue_month_year_repl \o vs_repl

\* C10: entries are written one at a time in the order of the source: what
\* has been written has, position by position, the names of the source,
\* up to the item at hand.
OrderPreserved ==
  Writing =>
     /\ Len(dst) <= Len(src)
     /\ \A j \in 1..Len(dst) : dst[j].filename = src[j].filename
     /\ pc \in {"read", "decode", "rules", "copy"} => Len(dst) = i - 1
     /\ pc = "for" => Len(dst) = i

OrderPreservedWitness ==
  /\ pc = "done"
  /\ Len(dst) = 2
  /\ ~IsTarget(dst[1]) /\ IsTarget(dst[2])
=============================================================================
